---- MODULE Spec2Model ----
(***************************************************************************)
(* Markdown Clever Lists: the list-line parser, the marker table, the      *)
(* number resolver, the line mutator and the three editor commands         *)
(* (onEnterKey, onIndent, onOutdent) of src/src/extension.ts.              *)
(*                                                                         *)
(* A line of text is a sequence of one-character strings.  A document is   *)
(* a sequence of lines; line numbers in the source are 0-based, sequence   *)
(* indices here are 1-based, so lineAt(n) is document[n + 1].              *)
(***************************************************************************)
EXTENDS Integers, Sequences, FiniteSets, TLC

VARIABLES
    document,       \* textEditor.document: the lines of the buffer
    tabSize,        \* textEditor.options.tabSize
    insertSpaces,   \* textEditor.options.insertSpaces
    config,         \* the "markdown-clever-lists" configuration
    selections,     \* textEditor.selections (selections[1] is textEditor.selection)
    outcome,        \* what the last command did: its edits, host commands, errors
    call            \* the last direct application of a pure function

vars == <<document, tabSize, insertSpaces, config, selections, outcome, call>>

----------------------------------------------------------------------------
(* Characters and numerals *)

SP == " "
TAB == "\t"
NL == "\n"

\* The characters \s matches, among those a line of the model can hold.
Whitespace == {SP, TAB}

Digits == <<"0", "1", "2", "3", "4", "5", "6", "7", "8", "9">>
DigitChars == {Digits[i] : i \in DOMAIN Digits}
BulletChars == {"-", "*", "+"}
CheckChars == {"x", "X", SP}
Delimiters == {".", ")"}

DigitVal(c) == (CHOOSE i \in DOMAIN Digits : Digits[i] = c) - 1

\* parseInt on a string of decimal digits.
RECURSIVE parseInt(_)
parseInt(ds) ==
    IF Len(ds) = 0 THEN 0
    ELSE parseInt(SubSeq(ds, 1, Len(ds) - 1)) * Len(Digits) + DigitVal(ds[Len(ds)])

\* String(number) / `${number}` for a non-negative integer.
RECURSIVE numberToString(_)
numberToString(n) ==
    IF n < Len(Digits) THEN <<Digits[n + 1]>>
    ELSE numberToString(n \div Len(Digits)) \o <<Digits[(n % Len(Digits)) + 1]>>

\* " ".repeat(n), "\t".repeat(n)
RECURSIVE repeat(_, _)
repeat(c, n) == IF n <= 0 THEN <<>> ELSE <<c>> \o repeat(c, n - 1)

\* substring(from) with a 0-based index, clamped as String.prototype.substring does.
substring(s, from) ==
    IF from >= Len(s) THEN <<>> ELSE SubSeq(s, (IF from < 0 THEN 0 ELSE from) + 1, Len(s))

\* The number of consecutive characters of s, from 1-based position p on, that
\* lie in set: what a greedy  [set]*  consumes.
RECURSIVE SpanLen(_, _, _)
SpanLen(s, p, set) ==
    IF p > Len(s) \/ p < 1 THEN 0
    ELSE IF s[p] \in set THEN 1 + SpanLen(s, p + 1, set)
    ELSE 0

CharAt(s, p, set) == p >= 1 /\ p <= Len(s) /\ s[p] \in set

\* s.replace(/\t/g, " ".repeat(tabSize))
RECURSIVE replaceTabs(_, _)
replaceTabs(s, ts) ==
    IF Len(s) = 0 THEN <<>>
    ELSE (IF Head(s) = TAB THEN repeat(SP, ts) ELSE <<Head(s)>>) \o replaceTabs(Tail(s), ts)

----------------------------------------------------------------------------
(* ParsedLine *)

\* Length of a checkbox suffix  " [x]"  at position p (0 when there is none).
CheckboxLen(s, p) ==
    IF /\ CharAt(s, p, {SP})
       /\ CharAt(s, p + 1, {"["})
       /\ CharAt(s, p + 2, CheckChars)
       /\ CharAt(s, p + 3, {"]"})
    THEN 4 ELSE 0

\* Length of the match of  ([-*+](?: \[[xX ]\])?|[0-9]+[.)])  at position p when
\* the match must be followed by a space (needSpace), as in the line grammar; the
\* optional checkbox is tried first and given up when no space follows it.
\* 0 when nothing matches.
MarkerMatchLen(s, p, needSpace) ==
    LET follows(q) == (~needSpace) \/ CharAt(s, q, {SP})
    IN  IF CharAt(s, p, BulletChars)
        THEN LET cb == CheckboxLen(s, p + 1)
             IN  IF cb > 0 /\ follows(p + 1 + cb) THEN 1 + cb
                 ELSE IF follows(p + 1) THEN 1
                 ELSE 0
        ELSE IF CharAt(s, p, DigitChars)
        THEN LET d == SpanLen(s, p, DigitChars)
             IN  IF CharAt(s, p + d, Delimiters) /\ follows(p + d + 1) THEN d + 1
                 ELSE 0
        ELSE 0

\* parseMarker: /^([0-9]+)([.)])/ on the marker.
parseMarker(marker) ==
    LET d == SpanLen(marker, 1, DigitChars)
    IN  IF d > 0 /\ CharAt(marker, d + 1, Delimiters)
        THEN [markerIsNumber |-> TRUE,
              markerNumber |-> parseInt(SubSeq(marker, 1, d)),
              markerDelimiter |-> marker[d + 1]]
        ELSE [markerIsNumber |-> FALSE, markerNumber |-> 0, markerDelimiter |-> ""]

\* The level of a line from its leading whitespace (as written in the file).
Level(initialSpacing, ts) == Len(initialSpacing) \div ts

\* document.lineAt(n) for a line number the document has.
lineAt(doc, n) == [lineNumber |-> n, text |-> doc[n + 1]]

\* document.lineAt(n) throws for any other n.
lineAtThrows(doc, n) == n < 0 \/ n >= Len(doc)

\* What  new ParsedLine(line, textEditor)  throws NotAListItemError for.
NotAListItem == [isListItem |-> FALSE]

\* The match of  /^(\s*)([-*+](?: \[[xX ]\])?|[0-9]+[.)])( +)(.*)/  on a text, as
\* the lengths of its groups 1 (ws), 2 (ml, 0 when the text does not match) and
\* 3 (sl); group 4 is the rest of the text.
matchSpaces(text, ws, ml) ==
    [ws |-> ws, ml |-> ml, sl |-> SpanLen(text, ws + ml + 1, {SP})]

matchMarker(text, ws) == matchSpaces(text, ws, MarkerMatchLen(text, ws + 1, TRUE))

lineMatch(text) == matchMarker(text, SpanLen(text, 1, Whitespace))

\* The fields of a ParsedLine from the groups of the match.
\* markerNumber and markerDelimiter are meaningful only when markerIsNumber.
parsedFields(line, ts, initialSpacing, asSpaces, level, marker, pm, trailing, rest) ==
    [isListItem |-> TRUE,
     line |-> line,
     initialSpacing |-> initialSpacing,
     initialSpacingAsSpaces |-> asSpaces,
     level |-> level,
     markerInitialSpaces |-> substring(asSpaces, level * ts),
     marker |-> marker,
     markerIsNumber |-> pm.markerIsNumber,
     markerNumber |-> pm.markerNumber,
     markerDelimiter |-> pm.markerDelimiter,
     markerTrailingSpaces |-> trailing,
     remainder |-> rest]

\* A variant of parsedGroups that keeps the indentation with its tabs replaced.
parsedGroupsTabsReplaced(line, ts, initialSpacing, marker, trailing, rest) ==
    parsedFields(line, ts, replaceTabs(initialSpacing, ts), replaceTabs(initialSpacing, ts),
                 Level(initialSpacing, ts), marker, parseMarker(marker), trailing, rest)

parsedGroups(line, ts, initialSpacing, marker, trailing, rest) ==
    parsedFields(line, ts, initialSpacing, replaceTabs(initialSpacing, ts),
                 Level(initialSpacing, ts), marker, parseMarker(marker), trailing, rest)

parsedMatch(line, ts, m) ==
    IF m.ml = 0 THEN NotAListItem
    ELSE parsedGroups(line, ts,
                      SubSeq(line.text, 1, m.ws),
                      SubSeq(line.text, m.ws + 1, m.ws + m.ml),
                      SubSeq(line.text, m.ws + m.ml + 1, m.ws + m.ml + m.sl),
                      SubSeq(line.text, m.ws + m.ml + m.sl + 1, Len(line.text)))

\* new ParsedLine(line, textEditor): the parts of the line, or NotAListItem.
ParsedLine(line, ts) == parsedMatch(line, ts, lineMatch(line.text))

getFullMarker(pl) == pl.markerInitialSpaces \o pl.marker

getHead(pl) == pl.initialSpacing \o pl.marker \o pl.markerTrailingSpaces

----------------------------------------------------------------------------
(* EditedParsedLine.  A textEditor is a record                             *)
(*   [document, tabSize, insertSpaces, selections];                        *)
(* an EditedParsedLine is a ParsedLine record with one more field, error,  *)
(* that holds the message of the Error a setter threw ("" for none).       *)

createIndentation(textEditor, level) ==
    IF textEditor.insertSpaces
    THEN repeat(SP, textEditor.tabSize * level)
    ELSE repeat(TAB, level)

\* EditedParsedLine.fromParsedLine: the line is parsed again.
fromParsedLine(parsedLine, textEditor) ==
    ParsedLine(parsedLine.line, textEditor.tabSize) @@ [error |-> ""]

\* setMarker, with pm what parseMarker finds in the new marker.
setParsedMarker(epl, marker, pm) ==
    [epl EXCEPT !.marker = marker,
                !.markerIsNumber = pm.markerIsNumber,
                !.markerNumber = pm.markerNumber,
                !.markerDelimiter = pm.markerDelimiter]

setMarker(epl, marker) == setParsedMarker(epl, marker, parseMarker(marker))

\* setFullMarker once  /^(\s*)([-*+](?: \[[xX ]\])?|[0-9]+[.)])/  has matched
\* ws characters of spacing and ml of marker (ml = 0: no match).
setMatchedFullMarker(epl, fullMarker, textEditor, ws, ml) ==
    IF ml = 0 THEN [epl EXCEPT !.error = "Invalid full marker"]
    ELSE setMarker(
             [epl EXCEPT
                 !.markerInitialSpaces = SubSeq(fullMarker, 1, ws),
                 !.initialSpacing =
                     createIndentation(textEditor, epl.level) \o SubSeq(fullMarker, 1, ws),
                 !.initialSpacingAsSpaces =
                     replaceTabs(createIndentation(textEditor, epl.level)
                                     \o SubSeq(fullMarker, 1, ws),
                                 textEditor.tabSize)],
             SubSeq(fullMarker, ws + 1, ws + ml))

setSpacedFullMarker(epl, fullMarker, textEditor, ws) ==
    setMatchedFullMarker(epl, fullMarker, textEditor, ws,
                         MarkerMatchLen(fullMarker, ws + 1, FALSE))

setFullMarker(epl, fullMarker, textEditor) ==
    setSpacedFullMarker(epl, fullMarker, textEditor, SpanLen(fullMarker, 1, Whitespace))

\* A variant of setMarkerNumber that always writes the delimiter ".".
setMarkerNumberWithDot(epl, number) ==
    IF ~epl.markerIsNumber THEN [epl EXCEPT !.error = "Marker is not a number"]
    ELSE [epl EXCEPT !.markerNumber = number,
                     !.marker = numberToString(number) \o <<".">>]

setMarkerNumber(epl, number) ==
    IF ~epl.markerIsNumber THEN [epl EXCEPT !.error = "Marker is not a number"]
    ELSE [epl EXCEPT !.markerNumber = number,
                     !.marker = numberToString(number) \o <<epl.markerDelimiter>>]

setIndentationLevel(epl, level, textEditor) ==
    [epl EXCEPT
        !.level = level,
        !.initialSpacing = createIndentation(textEditor, level) \o epl.markerInitialSpaces,
        !.initialSpacingAsSpaces =
            replaceTabs(createIndentation(textEditor, level) \o epl.markerInitialSpaces,
                        textEditor.tabSize)]

----------------------------------------------------------------------------
(* The marker table and the number resolver *)

ParsedAt(textEditor, n) == ParsedLine(lineAt(textEditor.document, n), textEditor.tabSize)

\* A variant of visitedLine that goes through the document from its first line.
visitedTopDown(activeLineNumber, i) == i

\* The line number the loop of getMarkerLevels visits at loop index i.
visitedLine(activeLineNumber, i) ==
    IF i <= activeLineNumber THEN activeLineNumber - i ELSE i

\* The loop of getMarkerLevels from loop index i on.  markerLevels is a function
\* from the recorded levels to their full markers (the defined entries of the
\* JavaScript array).  getMarkerLevelsStep is the loop body for the line parsed.
RECURSIVE getMarkerLevelsFrom(_, _, _, _, _)
RECURSIVE getMarkerLevelsStep(_, _, _, _, _, _)
getMarkerLevelsStep(textEditor, maxLevel, i, markerLevels, levelsRecorded, parsedLine) ==
    IF ~parsedLine.isListItem
    THEN getMarkerLevelsFrom(textEditor, maxLevel, i + 1, markerLevels, levelsRecorded)
    ELSE IF parsedLine.level \in DOMAIN markerLevels
    THEN getMarkerLevelsFrom(textEditor, maxLevel, i + 1, markerLevels, levelsRecorded)
    ELSE IF parsedLine.level > maxLevel
    THEN getMarkerLevelsFrom(textEditor, maxLevel, i + 1, markerLevels, levelsRecorded)
    ELSE IF levelsRecorded + 1 > maxLevel
    THEN (parsedLine.level :> getFullMarker(parsedLine)) @@ markerLevels
    ELSE getMarkerLevelsFrom(textEditor, maxLevel, i + 1,
                             (parsedLine.level :> getFullMarker(parsedLine)) @@ markerLevels,
                             levelsRecorded + 1)

getMarkerLevelsFrom(textEditor, maxLevel, i, markerLevels, levelsRecorded) ==
    IF i >= Len(textEditor.document) THEN markerLevels
    ELSE getMarkerLevelsStep(
             textEditor, maxLevel, i, markerLevels, levelsRecorded,
             ParsedAt(textEditor, visitedLine(textEditor.selections[1].active.line, i)))

getMarkerLevels(textEditor, maxLevel) ==
    getMarkerLevelsFrom(textEditor, maxLevel, 0, <<>>, 0)

\* A variant of determineFullMarker that does not cycle through the default
\* markers: a level without an entry gets the first of them.
firstDefaultMarker(markerLevels, level, cfg) ==
    IF level \notin DOMAIN markerLevels
    THEN IF Len(cfg.defaultMarkers) = 0 THEN <<"-">> ELSE cfg.defaultMarkers[1]
    ELSE markerLevels[level]

\* config.get("defaultMarkers") is cfg.defaultMarkers.
determineFullMarker(markerLevels, level, cfg) ==
    IF level \notin DOMAIN markerLevels
    THEN IF Len(cfg.defaultMarkers) = 0 THEN <<"-">>
         ELSE cfg.defaultMarkers[(level % Len(cfg.defaultMarkers)) + 1]
    ELSE markerLevels[level]

\* The loop of determineMarkerNumber with currentLineNumber = cur at its test.
\* The result is [threw, number]: threw when document.lineAt was given a line
\* number the document does not have.  determineMarkerNumberStep is the loop
\* body once the line is parsed.
RECURSIVE determineMarkerNumberFrom(_, _, _)
RECURSIVE determineMarkerNumberStep(_, _, _, _)
\* A variant of determineMarkerNumberStep in which a line of a sub-list ends
\* the scan: the numbering of version 1.0.0 (src/unnamed/part_000, 1.0.1).
stepEndingAtSubList(textEditor, currentLineNumber, indentationLevel, currentParsedLine) ==
    IF ~currentParsedLine.isListItem
    THEN determineMarkerNumberFrom(textEditor, currentLineNumber, indentationLevel)
    ELSE IF /\ currentParsedLine.markerIsNumber
            /\ currentParsedLine.level = indentationLevel
    THEN [threw |-> FALSE, number |-> currentParsedLine.markerNumber + 1]
    ELSE [threw |-> FALSE, number |-> 0 + 1]

determineMarkerNumberStep(textEditor, currentLineNumber, level, currentParsedLine) ==
    IF ~currentParsedLine.isListItem
    THEN determineMarkerNumberFrom(textEditor, currentLineNumber, level)
    ELSE IF /\ currentParsedLine.markerIsNumber
            /\ currentParsedLine.level = level
    THEN [threw |-> FALSE, number |-> currentParsedLine.markerNumber + 1]
    ELSE IF currentParsedLine.level < level
    THEN [threw |-> FALSE, number |-> 0 + 1]
    ELSE determineMarkerNumberFrom(textEditor, currentLineNumber, level)

determineMarkerNumberFrom(textEditor, cur, indentationLevel) ==
    IF ~(cur >= 0) THEN [threw |-> FALSE, number |-> 0 + 1]
    ELSE IF lineAtThrows(textEditor.document, cur - 1)
    THEN [threw |-> TRUE, number |-> 0]
    ELSE determineMarkerNumberStep(textEditor, cur - 1, indentationLevel,
                                   ParsedAt(textEditor, cur - 1))

determineMarkerNumber(textEditor, lineNumber, indentationLevel) ==
    determineMarkerNumberFrom(textEditor, lineNumber, indentationLevel)

\* The end of setIndentationLevelAndDetermineMarker: the number found is set.
setDeterminedNumber(epl, newNumber) ==
    IF newNumber.threw THEN [epl EXCEPT !.error = "Illegal value for line"]
    ELSE setMarkerNumber(epl, newNumber.number)

\* setIndentationLevelAndDetermineMarker from the line with the new level and
\* full marker set.
determineNumberIfNumbered(epl, textEditor) ==
    IF epl.error # "" THEN epl
    ELSE IF ~epl.markerIsNumber THEN epl
    ELSE setDeterminedNumber(
             epl, determineMarkerNumber(textEditor, epl.line.lineNumber, epl.level))

\* The EditedParsedLine after setIndentationLevelAndDetermineMarker; error is
\* set when one of its steps threw.
setIndentationLevelAndDetermineMarker(epl, level, markerLevels, textEditor, cfg) ==
    determineNumberIfNumbered(
        setFullMarker(setIndentationLevel(epl, level, textEditor),
                      determineFullMarker(markerLevels, level, cfg),
                      textEditor),
        textEditor)

\* A variant of updateEditorHead that replaces the head up to the marker only,
\* leaving the spaces after it in place.
updateEditorHeadToMarker(epl, originalParsedLine) ==
    [kind |-> "replace",
     line |-> originalParsedLine.line.lineNumber,
     start |-> 0,
     end |-> Len(originalParsedLine.initialSpacing \o originalParsedLine.marker),
     text |-> getHead(epl)]

\* updateEditorHead: edit.replace of the original line's head by the new head.
\* An edit is [kind, line, start, end, text]: the text that replaces the
\* characters start..end (0-based, end exclusive) of the line.
updateEditorHead(epl, originalParsedLine) ==
    [kind |-> "replace",
     line |-> originalParsedLine.line.lineNumber,
     start |-> 0,
     end |-> Len(getHead(originalParsedLine)),
     text |-> getHead(epl)]

\* What a helper or a command leaves in the edit builder: the edits it added,
\* and the message of the Error it threw ("" when it returned).
Added(edits) == [edits |-> edits, error |-> ""]
Threw(message) == [edits |-> <<>>, error |-> message]

\* The end of outdentListItem and indentListItem: the head is replaced, unless
\* computing it threw.
replaceHead(editedParsedLine, parsedLine) ==
    IF editedParsedLine.error # "" THEN Threw(editedParsedLine.error)
    ELSE Added(<<updateEditorHead(editedParsedLine, parsedLine)>>)

\* A variant of outdentListItem without the return at level 0: the head of a
\* line at the first level is removed, as the first version did with
\* stopAtFirstLevel off (src/src/extension.ts 183-208).
outdentRemovingAtFirstLevel(textEditor, markerLevels, parsedLine, cfg) ==
    IF parsedLine.level = 0
    THEN Added(<<[kind |-> "replace", line |-> parsedLine.line.lineNumber, start |-> 0,
                  end |-> Len(getHead(parsedLine)), text |-> <<>>]>>)
    ELSE replaceHead(
             setIndentationLevelAndDetermineMarker(
                 fromParsedLine(parsedLine, textEditor),
                 parsedLine.level - 1, markerLevels, textEditor, cfg),
             parsedLine)

outdentListItem(textEditor, markerLevels, parsedLine, cfg) ==
    IF parsedLine.level = 0 THEN Added(<<>>)
    ELSE replaceHead(
             setIndentationLevelAndDetermineMarker(
                 fromParsedLine(parsedLine, textEditor),
                 parsedLine.level - 1, markerLevels, textEditor, cfg),
             parsedLine)

indentListItem(textEditor, markerLevels, parsedLine, cfg) ==
    replaceHead(
        setIndentationLevelAndDetermineMarker(
            fromParsedLine(parsedLine, textEditor),
            parsedLine.level + 1, markerLevels, textEditor, cfg),
        parsedLine)

----------------------------------------------------------------------------
(* The three commands.  Each returns                                       *)
(*   [edits, commands, error]:                                             *)
(* the edits it submits, the host commands it executed, and the message of *)
(* an Error it threw ("" when it returned).                                *)

Max(a, b) == IF a >= b THEN a ELSE b

\* /^\s*$/.test(text.substring(character))
OnlyWhitespaceAfter(text, character) ==
    \A p \in (character + 1) .. Len(text) : text[p] \in Whitespace

\* The first loop of onEnterKey from selection k on: allCursorsOnListItems and
\* maxLevel at the end of the loop (or at its break).  enterScanStep is the
\* loop body once the cursor's line is parsed.
RECURSIVE enterScan(_, _, _)
RECURSIVE enterScanStep(_, _, _, _, _)
\* A variant of enterScanStep that does not look at what follows the cursor.
enterScanStepAnyColumn(textEditor, k, maxLevel, active, parsedLine) ==
    IF ~parsedLine.isListItem
    THEN [allCursorsOnListItems |-> FALSE, maxLevel |-> maxLevel]
    ELSE enterScan(textEditor, k + 1, Max(maxLevel, parsedLine.level))

enterScanStep(textEditor, k, maxLevel, active, parsedLine) ==
    IF ~parsedLine.isListItem
    THEN [allCursorsOnListItems |-> FALSE, maxLevel |-> maxLevel]
    ELSE IF ~OnlyWhitespaceAfter(parsedLine.line.text, active.character)
    THEN [allCursorsOnListItems |-> FALSE, maxLevel |-> maxLevel]
    ELSE enterScan(textEditor, k + 1, Max(maxLevel, parsedLine.level))

enterScan(textEditor, k, maxLevel) ==
    IF k > Len(textEditor.selections)
    THEN [allCursorsOnListItems |-> TRUE, maxLevel |-> maxLevel]
    ELSE enterScanStep(textEditor, k, maxLevel, textEditor.selections[k].active,
                       ParsedAt(textEditor, textEditor.selections[k].active.line))

\* edit.insert(cursorPosition, text)
insertAt(cursorPosition, text) ==
    [kind |-> "insert", line |-> cursorPosition.line,
     start |-> cursorPosition.character, end |-> cursorPosition.character,
     text |-> text]

\* edit.delete(line.range): the range of a line excludes its line break.
deleteLine(line) ==
    [kind |-> "delete", line |-> line.lineNumber, start |-> 0, end |-> Len(line.text),
     text |-> <<>>]

\* The new line of a numbered item, once its number is determined.
insertNumbered(cursorPosition, newParsedLine, newNumber) ==
    IF newNumber.threw THEN Threw("Illegal value for line")
    ELSE Added(<<insertAt(cursorPosition,
                          <<NL>> \o getHead(setMarkerNumber(newParsedLine,
                                                            newNumber.number)))>>)

\* A variant of insertNewItem that copies the head of the line as it is.
insertCopiedHead(textEditor, cursorPosition, parsedLine, newParsedLine) ==
    Added(<<insertAt(cursorPosition, <<NL>> \o getHead(newParsedLine))>>)

\* The else-branch of the second loop of onEnterKey: a new line with the
\* current list marker style.
insertNewItem(textEditor, cursorPosition, parsedLine, newParsedLine) ==
    IF newParsedLine.markerIsNumber
    THEN insertNumbered(cursorPosition, newParsedLine,
                        determineMarkerNumber(textEditor, parsedLine.line.lineNumber + 1,
                                              parsedLine.level))
    ELSE Added(<<insertAt(cursorPosition, <<NL>> \o getHead(newParsedLine))>>)

\* A variant of enterParsed that does not read blankListItemBehaviour: a blank
\* item is always outdented.
enterParsedAlwaysOutdent(textEditor, cfg, markerLevels, cursorPosition, parsedLine) ==
    IF ~parsedLine.isListItem THEN Added(<<insertAt(cursorPosition, <<NL>>)>>)
    ELSE IF parsedLine.remainder = <<>>
    THEN outdentListItem(textEditor, markerLevels, parsedLine, cfg)
    ELSE insertNewItem(textEditor, cursorPosition, parsedLine,
                       fromParsedLine(parsedLine, textEditor))

\* The body of the second loop of onEnterKey once the cursor's line is parsed.
enterParsed(textEditor, cfg, markerLevels, cursorPosition, parsedLine) ==
    IF ~parsedLine.isListItem THEN Added(<<insertAt(cursorPosition, <<NL>>)>>)
    ELSE IF parsedLine.remainder = <<>>
    THEN IF cfg.blankListItemBehaviour = "Remove List Item"
         THEN Added(<<deleteLine(parsedLine.line)>>)
         ELSE outdentListItem(textEditor, markerLevels, parsedLine, cfg)
    ELSE insertNewItem(textEditor, cursorPosition, parsedLine,
                       fromParsedLine(parsedLine, textEditor))

\* The body of the second loop of onEnterKey for one selection.
enterOne(textEditor, cfg, markerLevels, selection) ==
    enterParsed(textEditor, cfg, markerLevels, selection.active,
                ParsedAt(textEditor, selection.active.line))

\* A loop that adds edits item by item and stops at the first Error: results[k]
\* is what the loop body does for item k.  When the body throws, the command
\* ends there and the edit builder is never submitted.
RECURSIVE editLoop(_, _)
RECURSIVE editLoopRest(_, _, _)
editLoopRest(results, k, rest) ==
    IF rest.error # "" THEN rest ELSE Added(results[k].edits \o rest.edits)

editLoop(results, k) ==
    IF k > Len(results) THEN Added(<<>>)
    ELSE IF results[k].error # "" THEN Threw(results[k].error)
    ELSE editLoopRest(results, k, editLoop(results, k + 1))

\* What a command that reached its second loop returns.
Edited(done) == [edits |-> done.edits, commands |-> <<>>, error |-> done.error]

\* What a command that executed a host command instead returns.
Deferred(command) == [edits |-> <<>>, commands |-> <<command>>, error |-> ""]

\* The second loop of onEnterKey.
enterEdits(textEditor, cfg, markerLevels) ==
    Edited(editLoop([k \in DOMAIN textEditor.selections |->
                        enterOne(textEditor, cfg, markerLevels, textEditor.selections[k])],
                    1))

\* onEnterKey after its first loop.
enterScanned(textEditor, cfg, scan) ==
    IF ~scan.allCursorsOnListItems THEN Deferred("type")
    ELSE enterEdits(textEditor, cfg, getMarkerLevels(textEditor, scan.maxLevel - 1))

onEnterKey(textEditor, cfg) == enterScanned(textEditor, cfg, enterScan(textEditor, 1, 0))

\* The lines the first loop of onIndent / onOutdent parses for one selection.
LinesInspected(selection) == Max(0, selection.start.line - 1) .. selection.end.line

\* The lines of one selection its parsedLines[j] holds, in order.
LinesSpanned(selection) ==
    [i \in 1 .. (selection.end.line - selection.start.line + 1) |->
        selection.start.line + i - 1]

\* A variant of MeetsNotAListItem that leaves out the line before a selection.
MeetsNotAListItemInside(textEditor) ==
    \E j \in DOMAIN textEditor.selections :
        \E i \in textEditor.selections[j].start.line .. textEditor.selections[j].end.line :
            ~ParsedAt(textEditor, i).isListItem

\* Whether the first loop meets a line that is not a list item.
MeetsNotAListItem(textEditor) ==
    \E j \in DOMAIN textEditor.selections :
        \E i \in LinesInspected(textEditor.selections[j]) :
            ~ParsedAt(textEditor, i).isListItem

\* parsedLines[j][i] for all j, i in the order of the second loop.
RECURSIVE SpannedInOrder(_, _)
SpannedInOrder(textEditor, j) ==
    IF j > Len(textEditor.selections) THEN <<>>
    ELSE LinesSpanned(textEditor.selections[j]) \o SpannedInOrder(textEditor, j + 1)

\* maxLevel at the end of the first loop of onIndent / onOutdent.
RECURSIVE maxLevelOver(_, _, _)
maxLevelOver(textEditor, spanned, k) ==
    IF k > Len(spanned) THEN 0
    ELSE Max(ParsedAt(textEditor, spanned[k]).level,
             maxLevelOver(textEditor, spanned, k + 1))

\* The editor after the lines spanned[1 .. k-1] were outdented one after the
\* other, each edit applied before the next line is looked at.
RECURSIVE outdentedInTurn(_, _, _, _, _)
outdentedInTurn(textEditor, cfg, markerLevels, spanned, k) ==
    IF k = 1 THEN textEditor
    ELSE LET earlier == outdentedInTurn(textEditor, cfg, markerLevels, spanned, k - 1)
             parsedLine == ParsedAt(earlier, spanned[k - 1])
             done == outdentListItem(earlier, markerLevels, parsedLine, cfg)
         IN  IF done.edits = <<>> THEN earlier
             ELSE [earlier EXCEPT
                      !.document[spanned[k - 1] + 1] =
                          done.edits[1].text \o parsedLine.remainder]

\* A variant of outdentEdits in which the head of a line is computed from the
\* document as the lines edited before it have left it.
outdentEditsInTurn(textEditor, cfg, markerLevels, spanned) ==
    Edited(editLoop([k \in DOMAIN spanned |->
                        outdentListItem(outdentedInTurn(textEditor, cfg, markerLevels,
                                                        spanned, k),
                                        markerLevels,
                                        ParsedAt(textEditor, spanned[k]), cfg)],
                    1))

\* The second loop of onOutdent.
outdentEdits(textEditor, cfg, markerLevels, spanned) ==
    Edited(editLoop([k \in DOMAIN spanned |->
                        outdentListItem(textEditor, markerLevels,
                                        ParsedAt(textEditor, spanned[k]), cfg)],
                    1))

outdentSpanned(textEditor, cfg, spanned) ==
    outdentEdits(textEditor, cfg,
                 getMarkerLevels(textEditor, maxLevelOver(textEditor, spanned, 1) - 1),
                 spanned)

onOutdent(textEditor, cfg) ==
    IF MeetsNotAListItem(textEditor) THEN Deferred("editor.action.outdentLines")
    ELSE outdentSpanned(textEditor, cfg, SpannedInOrder(textEditor, 1))

\* The second loop of onIndent.
indentEdits(textEditor, cfg, markerLevels, spanned) ==
    Edited(editLoop([k \in DOMAIN spanned |->
                        indentListItem(textEditor, markerLevels,
                                       ParsedAt(textEditor, spanned[k]), cfg)],
                    1))

indentSpanned(textEditor, cfg, spanned) ==
    indentEdits(textEditor, cfg,
                getMarkerLevels(textEditor, maxLevelOver(textEditor, spanned, 1) + 1),
                spanned)

\* The lines spanned by the selections from selection j on whose inspected
\* lines all are list items.
RECURSIVE SpannedWhereParsed(_, _)
SpannedWhereParsed(textEditor, j) ==
    IF j > Len(textEditor.selections) THEN <<>>
    ELSE (IF \A i \in LinesInspected(textEditor.selections[j]) :
                 ParsedAt(textEditor, i).isListItem
          THEN LinesSpanned(textEditor.selections[j])
          ELSE <<>>)
             \o SpannedWhereParsed(textEditor, j + 1)

\* A variant of onIndent that defers to the default command only for the
\* selections that meet a line that is not a list item.
onIndentEachSelection(textEditor, cfg) ==
    IF MeetsNotAListItem(textEditor)
    THEN [indentSpanned(textEditor, cfg, SpannedWhereParsed(textEditor, 1))
              EXCEPT !.commands = <<"editor.action.indentLines">>]
    ELSE indentSpanned(textEditor, cfg, SpannedInOrder(textEditor, 1))

onIndent(textEditor, cfg) ==
    IF MeetsNotAListItem(textEditor) THEN Deferred("editor.action.indentLines")
    ELSE indentSpanned(textEditor, cfg, SpannedInOrder(textEditor, 1))

----------------------------------------------------------------------------
(* The host: how the editor applies the edits a command submitted.  All    *)
(* the edits of one command are ranges of the pre-edit document and are    *)
(* applied together; the host rejects them all when two ranges overlap.    *)

Overlap(a, b) == a.line = b.line /\ a.start < b.end /\ b.start < a.end

Overlapping(edits) ==
    \E i, j \in DOMAIN edits : i < j /\ Overlap(edits[i], edits[j])

\* The edits in the order of their start columns, earlier submissions first.
RECURSIVE sortEdits(_)
sortEdits(es) ==
    IF Len(es) = 0 THEN <<>>
    ELSE LET k == CHOOSE k \in DOMAIN es :
                     \A m \in DOMAIN es :
                         es[k].start < es[m].start \/ (es[k].start = es[m].start /\ k <= m)
         IN  <<es[k]>> \o sortEdits(SubSeq(es, 1, k - 1) \o SubSeq(es, k + 1, Len(es)))

\* The text of a line with its (sorted) edits applied, from column pos on.
RECURSIVE rebuildLine(_, _, _)
rebuildLine(text, es, pos) ==
    IF Len(es) = 0 THEN substring(text, pos)
    ELSE SubSeq(text, pos + 1, Head(es).start) \o Head(es).text
             \o rebuildLine(text, Tail(es), Head(es).end)

\* The lines a text with line breaks consists of.
RECURSIVE splitLines(_)
splitLines(text) ==
    LET n == SpanLen(text, 1, {c \in {text[i] : i \in DOMAIN text} : c # NL})
    IN  IF n = Len(text) THEN <<text>>
        ELSE <<SubSeq(text, 1, n)>> \o splitLines(SubSeq(text, n + 2, Len(text)))

RECURSIVE applyFrom(_, _, _)
applyFrom(doc, edits, n) ==
    IF n >= Len(doc) THEN <<>>
    ELSE LET onLine(e) == e.line = n
         IN  splitLines(rebuildLine(doc[n + 1], sortEdits(SelectSeq(edits, onLine)), 0))
                 \o applyFrom(doc, edits, n + 1)

applyEdits(doc, edits) ==
    IF Overlapping(edits) THEN doc ELSE applyFrom(doc, edits, 0)

----------------------------------------------------------------------------
(* The editor states the commands are run in *)

MaxLines == 3

\* The lines a document of the model is made of.
LineTexts ==
    { <<"-", SP, "a">>,                                   \* "- a"
      <<"1", ".", SP, "a">>,                              \* "1. a"
      <<SP, SP, "*", SP, "[", "x", "]", SP, "a", SP>>,    \* "  * [x] a "
      <<SP, SP, "-", SP>>,                                \* "  - " (a blank item)
      <<TAB, "+", SP, SP, "a">>,                          \* a tab, then "+  a"
      <<"a">> }                                           \* not a list item

RECURSIVE SeqsUpTo(_, _)
SeqsUpTo(S, n) ==
    IF n = 0 THEN {<<>>}
    ELSE LET shorter == SeqsUpTo(S, n - 1)
         IN  shorter \cup {Append(q, x) : q \in {r \in shorter : Len(r) = n - 1}, x \in S}

Documents == SeqsUpTo(LineTexts, MaxLines) \ {<<>>}

\* The editor options: tab size and insert-spaces-or-tabs.
Options ==
    { [tabSize |-> 2, insertSpaces |-> TRUE],
      [tabSize |-> 2, insertSpaces |-> FALSE],
      [tabSize |-> 4, insertSpaces |-> TRUE] }

\* The configuration.  onIndent and onOutdent never read blankListItemBehaviour,
\* and onEnterKey reads defaultMarkers only when it outdents a blank item, so
\* "Remove List Item" is paired with the default defaultMarkers alone.
Configs ==
    { c \in [blankListItemBehaviour : {"Outdent", "Remove List Item"},
             defaultMarkers : {<<>>, <<<<"-">>>>, <<<<"1", ".">>, <<"*">>>>}] :
        c.blankListItemBehaviour = "Remove List Item" => c.defaultMarkers = <<<<"-">>>> }

Position(l, c) == [line |-> l, character |-> c]

\* A cursor: an empty selection.
Cursor(l, c) == [start |-> Position(l, c), end |-> Position(l, c), active |-> Position(l, c)]

\* A selection from the start of line l1 to the end of line l2 of doc.
Range(doc, l1, l2) ==
    [start |-> Position(l1, 0), end |-> Position(l2, Len(doc[l2 + 1])),
     active |-> Position(l2, Len(doc[l2 + 1]))]

\* Cursors at the end of a line and selections of whole lines.
Simple(doc) ==
    {Cursor(l, Len(doc[l + 1])) : l \in 0 .. Len(doc) - 1}
        \cup {Range(doc, l[1], l[2]) :
                 l \in {m \in (0 .. Len(doc) - 1) \X (0 .. Len(doc) - 1) : m[1] < m[2]}}

\* Cursors one character before the end of a line.
Inner(doc) ==
    {Cursor(l, Len(doc[l + 1]) - 1) : l \in {m \in 0 .. Len(doc) - 1 : Len(doc[m + 1]) > 0}}

Disjoint(s, t) == s.end.line < t.start.line \/ t.end.line < s.start.line

\* One selection, or two selections on different lines (in either order).
SelectionSets(doc) ==
    {<<s>> : s \in Simple(doc) \cup Inner(doc)}
        \cup {<<p[1], p[2]>> :
                 p \in {q \in Simple(doc) \X Simple(doc) : Disjoint(q[1], q[2])}}

NoOutcome ==
    [op |-> "none", edits |-> <<>>, commands |-> <<>>, error |-> "", applied |-> FALSE,
     before |-> <<>>]

NoCall == [fn |-> "none"]

Init ==
    /\ document \in Documents
    /\ \E o \in Options : tabSize = o.tabSize /\ insertSpaces = o.insertSpaces
    /\ config \in Configs
    /\ selections \in SelectionSets(document)
    /\ outcome = NoOutcome
    /\ call = NoCall

TextEditor ==
    [document |-> document, tabSize |-> tabSize, insertSpaces |-> insertSpaces,
     selections |-> selections]

\* The edits the host receives: none when the command threw.
Submitted(r) == IF r.error = "" THEN r.edits ELSE <<>>

\* A command runs on the editor as the user left it, and the host applies the
\* edits it submitted: none when the command threw, and none when the host
\* rejects them.  Where the host leaves the cursors afterwards is the host's
\* business, so the model follows one command from each editor state.
Run(op, result) ==
    /\ outcome.op = "none"
    /\ call = NoCall
    /\ \E r \in {result} :
         /\ outcome' = [op |-> op, edits |-> Submitted(r), commands |-> r.commands,
                        error |-> r.error,
                        applied |-> r.error = "" /\ ~Overlapping(Submitted(r)),
                        before |-> document]
         /\ document' = applyEdits(document, Submitted(r))
    /\ UNCHANGED <<tabSize, insertSpaces, config, selections, call>>

OnEnterKey == Run("onEnterKey", onEnterKey(TextEditor, config))

OnOutdent == Run("onOutdent", onOutdent(TextEditor, config))

OnIndent == Run("onIndent", onIndent(TextEditor, config))

Next == OnEnterKey \/ OnOutdent \/ OnIndent

Spec == Init /\ [][Next]_vars

\* The editor as the command that ran found it.
Before ==
    [document |-> outcome.before, tabSize |-> tabSize, insertSpaces |-> insertSpaces,
     selections |-> selections]

----------------------------------------------------------------------------
(* The marker table and the number resolver applied on their own: the      *)
(* document, the tab size and the active line are those of the editor,     *)
(* the other arguments are those the commands pass.                        *)

MaxScanLines == 4
MaxScanLevel == 2

ScanLineTexts ==
    { <<"-", SP, "a">>,                     \* "- a"
      <<"7", ".", SP, "a">>,                \* "7. a"
      <<SP, SP, "*", SP, "a">>,             \* "  * a"
      <<SP, SP, "1", "9", ")", SP, "a">>,   \* "  19) a"
      <<>> }                                \* an empty line: not a list item

ScanDocuments == SeqsUpTo(ScanLineTexts, MaxScanLines) \ {<<>>}

InitScan ==
    /\ document \in ScanDocuments
    /\ tabSize \in {o.tabSize : o \in Options}
    /\ insertSpaces = TRUE
    /\ config = [blankListItemBehaviour |-> "Outdent", defaultMarkers |-> <<<<"-">>>>]
    /\ selections \in {<<Cursor(l, 0)>> : l \in 0 .. Len(document) - 1}
    /\ outcome = NoOutcome
    /\ call = NoCall

\* determineMarkerNumber as onEnterKey calls it: for the line after an ordered
\* item, at that item's level.
CalledByEnter(lineNumber, level) ==
    /\ lineNumber >= 1
    /\ ParsedAt(TextEditor, lineNumber - 1).isListItem
    /\ ParsedAt(TextEditor, lineNumber - 1).markerIsNumber
    /\ ParsedAt(TextEditor, lineNumber - 1).level = level

\* determineMarkerNumber as setIndentationLevelAndDetermineMarker calls it: for
\* a list line moved one level up or down.
CalledByMutator(lineNumber, level) ==
    /\ lineNumber < Len(document)
    /\ ParsedAt(TextEditor, lineNumber).isListItem
    /\ ParsedAt(TextEditor, lineNumber).level \in {level - 1, level + 1}

CallDetermineMarkerNumber ==
    /\ call = NoCall
    /\ \E lineNumber \in 0 .. Len(document), level \in 0 .. MaxScanLevel :
         /\ CalledByEnter(lineNumber, level) \/ CalledByMutator(lineNumber, level)
         /\ call' = [fn |-> "determineMarkerNumber", lineNumber |-> lineNumber,
                     indentationLevel |-> level,
                     result |-> determineMarkerNumber(TextEditor, lineNumber, level)]
    /\ UNCHANGED <<document, tabSize, insertSpaces, config, selections, outcome>>

CallGetMarkerLevels ==
    /\ call = NoCall
    /\ \E maxLevel \in -1 .. MaxScanLevel :
         call' = [fn |-> "getMarkerLevels", maxLevel |-> maxLevel,
                  result |-> getMarkerLevels(TextEditor, maxLevel)]
    /\ UNCHANGED <<document, tabSize, insertSpaces, config, selections, outcome>>

NextScan == CallDetermineMarkerNumber \/ CallGetMarkerLevels

SpecScan == InitScan /\ [][NextScan]_vars

----------------------------------------------------------------------------
(* The line parser applied on its own to the one line of a document. *)

MaxIndent == 3

Indentations == SeqsUpTo(Whitespace, MaxIndent)

\* What follows the indentation: list items of every marker form, and texts
\* the grammar rejects.
Bodies ==
    { <<"-", SP, "a">>,                          \* "- a"
      <<"*", SP, SP, "a", SP>>,                  \* "*  a "
      <<"+", SP>>,                               \* "+ "
      <<"-", SP, "[", "x", "]", SP, "a">>,       \* "- [x] a"
      <<"-", SP, "[", SP, "]", SP, SP>>,         \* "- [ ]  "
      <<"-", SP, "[", "X", "]">>,                \* "- [X]": no space follows the box
      <<"-", SP, "[", "a", "]", SP, "a">>,       \* "- [a] a"
      <<"1", ".", SP, "a">>,                     \* "1. a"
      <<"0", "4", "2", ")", SP, SP, "a", ".">>, \* "042)  a."
      <<"9", ".", SP, TAB, "a">>,                \* "9. ", a tab, "a"
      <<"-", "a">>,                              \* "-a"
      <<"1", ".", "a">>,                         \* "1.a"
      <<"1", SP, "a">>,                          \* "1 a"
      <<"-", TAB, "a">>,                         \* "-", a tab, "a"
      <<"a", SP, "-", SP, "a">>,                 \* "a - a"
      <<>> }

InitParse ==
    /\ document \in {<<i \o b>> : i \in Indentations, b \in Bodies}
    /\ tabSize \in {o.tabSize : o \in Options}
    /\ insertSpaces = TRUE
    /\ config = [blankListItemBehaviour |-> "Outdent", defaultMarkers |-> <<<<"-">>>>]
    /\ selections = <<Cursor(0, 0)>>
    /\ outcome = NoOutcome
    /\ call = NoCall

CallParsedLine ==
    /\ call = NoCall
    /\ call' = [fn |-> "ParsedLine",
                result |-> ParsedLine(lineAt(document, 0), tabSize)]
    /\ UNCHANGED <<document, tabSize, insertSpaces, config, selections, outcome>>

NextParse == CallParsedLine

SpecParse == InitParse /\ [][NextParse]_vars

----------------------------------------------------------------------------
(* The loop of getMarkerLevels, one iteration at a time.  call holds the   *)
(* locals of the function: the loop index i, markerLevels, levelsRecorded, *)
(* the line numbers passed to lineAt so far, and whether the loop was left *)
(* by its break and whether the function has returned.                     *)

Loop(maxLevel) ==
    [fn |-> "getMarkerLevelsLoop", maxLevel |-> maxLevel, i |-> 0, markerLevels |-> <<>>,
     levelsRecorded |-> 0, visited |-> <<>>, broke |-> FALSE, returned |-> FALSE]

InitLoop ==
    /\ document \in ScanDocuments
    /\ tabSize \in {o.tabSize : o \in Options}
    /\ insertSpaces = TRUE
    /\ config = [blankListItemBehaviour |-> "Outdent", defaultMarkers |-> <<<<"-">>>>]
    /\ selections \in {<<Cursor(l, 0)>> : l \in 0 .. Len(document) - 1}
    /\ outcome = NoOutcome
    /\ call \in {Loop(maxLevel) : maxLevel \in -1 .. MaxScanLevel}

\* The continue statements and the end of the loop body without break.
loopContinue(loop, lineNumber) ==
    [loop EXCEPT !.i = @ + 1, !.visited = Append(@, lineNumber)]

\* The end of the loop body: the full marker is recorded, and the loop is left
\* once levelsRecorded exceeds maxLevel.
loopRecord(loop, lineNumber, parsedLine) ==
    [loop EXCEPT !.markerLevels = (parsedLine.level :> getFullMarker(parsedLine)) @@ @,
                 !.levelsRecorded = @ + 1,
                 !.visited = Append(@, lineNumber),
                 !.i = IF loop.levelsRecorded + 1 > loop.maxLevel THEN @ ELSE @ + 1,
                 !.broke = loop.levelsRecorded + 1 > loop.maxLevel]

\* A variant of loopBody without the test for a level that has its entry: a
\* later line of the level overwrites it.
loopBodyOverwriting(loop, lineNumber, parsedLine) ==
    IF ~parsedLine.isListItem THEN loopContinue(loop, lineNumber)
    ELSE IF parsedLine.level > loop.maxLevel THEN loopContinue(loop, lineNumber)
    ELSE loopRecord(loop, lineNumber, parsedLine)

\* The body of the loop for the line visited.
loopBody(loop, lineNumber, parsedLine) ==
    IF ~parsedLine.isListItem THEN loopContinue(loop, lineNumber)
    ELSE IF parsedLine.level \in DOMAIN loop.markerLevels THEN loopContinue(loop, lineNumber)
    ELSE IF parsedLine.level > loop.maxLevel THEN loopContinue(loop, lineNumber)
    ELSE loopRecord(loop, lineNumber, parsedLine)

LoopIteration ==
    /\ call.fn = "getMarkerLevelsLoop"
    /\ ~call.broke /\ ~call.returned
    /\ call.i < Len(document)
    /\ \E lineNumber \in {visitedLine(selections[1].active.line, call.i)} :
       \E parsedLine \in {ParsedAt(TextEditor, lineNumber)} :
           call' = loopBody(call, lineNumber, parsedLine)
    /\ UNCHANGED <<document, tabSize, insertSpaces, config, selections, outcome>>

LoopReturn ==
    /\ call.fn = "getMarkerLevelsLoop"
    /\ ~call.returned
    /\ call.broke \/ call.i >= Len(document)
    /\ call' = [call EXCEPT !.returned = TRUE]
    /\ UNCHANGED <<document, tabSize, insertSpaces, config, selections, outcome>>

NextLoop == LoopIteration \/ LoopReturn

SpecLoop == InitLoop /\ [][NextLoop]_vars

----------------------------------------------------------------------------
(* An editing session: the user presses Enter at the end of a line and     *)
(* types content into the line the cursor is on, again and again.  The     *)
(* host leaves the cursor after the text a command inserted, which is the  *)
(* end of the cursor's line in every case.                                 *)

MaxSessionStart == 2
MaxSessionLines == 4

SessionLineTexts ==
    { <<"9", ".", SP, "a">>,                \* "9. a"
      <<SP, SP, "1", "9", ")", SP, "a">>,   \* "  19) a"
      <<TAB, "2", ")", SP, "a">>,           \* a tab, then "2) a"
      <<"-", SP, "a">> }                    \* "- a"

SessionDocuments == SeqsUpTo(SessionLineTexts, MaxSessionStart) \ {<<>>}

\* The session so far: the last `continued` presses of Enter each inserted a
\* line, the first of them at the end of line `start` and each of the others at
\* the end of the line the press before it inserted.
Session(start, continued) == [fn |-> "session", start |-> start, continued |-> continued]

InitSession ==
    /\ document \in SessionDocuments
    /\ \E o \in Options : tabSize = o.tabSize /\ insertSpaces = o.insertSpaces
    /\ config \in Configs
    /\ selections \in {<<Cursor(l, Len(document[l + 1]))>> : l \in 0 .. Len(document) - 1}
    /\ outcome = NoOutcome
    /\ call = Session(selections[1].active.line, 0)

\* The edits of one press of Enter: those onEnterKey submitted, or the line
\* break the default command types at the cursor.
SessionEdits(r, cursorPosition) ==
    IF r.commands # <<>> THEN <<insertAt(cursorPosition, <<NL>>)>> ELSE Submitted(r)

\* The session after a press of Enter on line c that made the document grow
\* by `grown` lines.
Continued(c, grown) ==
    IF grown = 0 THEN Session(c, 0)
    ELSE IF c = call.start + call.continued THEN Session(call.start, call.continued + 1)
    ELSE Session(c, 1)

\* Enter is pressed: onEnterKey runs, the host applies its edits and leaves
\* the cursor at the end of the line it is on afterwards.
Continue ==
    /\ call.fn = "session"
    /\ Len(document) < MaxSessionLines
    /\ \E c \in {selections[1].active.line} :
       \E r \in {onEnterKey(TextEditor, config)} :
       \E es \in {SessionEdits(r, selections[1].active)} :
       \E d \in {applyEdits(document, es)} :
         /\ outcome' = [op |-> "onEnterKey", edits |-> es, commands |-> r.commands,
                        error |-> r.error, applied |-> r.error = "",
                        before |-> document]
         /\ document' = d
         /\ selections' = <<Cursor(c + Len(d) - Len(document),
                                   Len(d[c + Len(d) - Len(document) + 1]))>>
         /\ call' = Continued(c, Len(d) - Len(document))
    /\ UNCHANGED <<tabSize, insertSpaces, config>>

\* The user types content into the line the cursor is on, once per line.
TypeContent ==
    /\ call.fn = "session"
    /\ \E c \in {selections[1].active.line} :
       \E text \in {document[c + 1]} :
         /\ IF Len(text) = 0 THEN TRUE ELSE text[Len(text)] # "a"
         /\ document' = [document EXCEPT ![c + 1] = text \o <<"a">>]
         /\ selections' = <<Cursor(c, Len(text) + 1)>>
         /\ outcome' = [op |-> "type",
                        edits |-> <<insertAt(selections[1].active, <<"a">>)>>,
                        commands |-> <<>>, error |-> "", applied |-> TRUE,
                        before |-> document]
    /\ UNCHANGED <<tabSize, insertSpaces, config, call>>

NextSession == Continue \/ TypeContent

SpecSession == InitSession /\ [][NextSession]_vars

----------------------------------------------------------------------------
(* Continue (onEnterKey) on a list line with content *)

\* The head Continue gives the line below a list line: the line's own
\* indentation and trailing spaces around its marker, an ordered marker with
\* its numeral advanced by one.
ContinuedHead(pl) ==
    pl.initialSpacing
        \o (IF pl.markerIsNumber
            THEN numberToString(pl.markerNumber + 1) \o <<pl.markerDelimiter>>
            ELSE pl.marker)
        \o pl.markerTrailingSpaces

\* The cursor of selection s is on a list line with content, and only
\* whitespace follows it.
ContinuesItem(s) ==
    /\ ParsedAt(Before, s.active.line).isListItem
    /\ ParsedAt(Before, s.active.line).remainder # <<>>
    /\ OnlyWhitespaceAfter(outcome.before[s.active.line + 1], s.active.character)

\* The document with a line break and head inserted at position at.
BrokenAt(doc, at, head) ==
    SubSeq(doc, 1, at.line)
        \o << SubSeq(doc[at.line + 1], 1, at.character),
              head \o substring(doc[at.line + 1], at.character) >>
        \o SubSeq(doc, at.line + 2, Len(doc))

\* C1: Continue with every cursor on a list line with content and only
\* whitespace after the cursor submits, for each cursor, one insertion at the
\* cursor of a line break followed by the line's raw indentation, its marker
\* (a bullet or checkbox marker verbatim, an ordered marker with the same
\* delimiter and the numeral plus one) and its trailing spaces; it submits
\* nothing else, so the text of the existing line is kept, and with one cursor
\* the document is the old one broken at the cursor with that head inserted.
C1_ContinueInsertsHead ==
    (outcome.op = "onEnterKey" /\ \A k \in DOMAIN selections : ContinuesItem(selections[k]))
        => /\ outcome.error = ""
           /\ outcome.commands = <<>>
           /\ outcome.applied
           /\ outcome.edits =
                  [k \in DOMAIN selections |->
                      [kind |-> "insert",
                       line |-> selections[k].active.line,
                       start |-> selections[k].active.character,
                       end |-> selections[k].active.character,
                       text |-> <<NL>> \o ContinuedHead(
                                    ParsedAt(Before, selections[k].active.line))]]
           /\ Len(selections) = 1 =>
                  document = BrokenAt(outcome.before, selections[1].active,
                                      ContinuedHead(ParsedAt(Before, selections[1].active.line)))

\* C1 happens: "1. a" is continued by "2. " in one run, and in another a
\* checkbox item is continued from a cursor with a space after it.
C1_Witness ==
    /\ outcome.op = "onEnterKey"
    /\ \A k \in DOMAIN selections : ContinuesItem(selections[k])
    /\ \/ /\ outcome.before = << <<"1", ".", SP, "a">> >>
          /\ document = << <<"1", ".", SP, "a">>, <<"2", ".", SP>> >>
       \/ /\ Len(selections) = 1
          /\ selections[1].active.character < Len(outcome.before[selections[1].active.line + 1])
          /\ <<SP, SP, "*", SP, "[", "x", "]", SP, SP>> \in {document[i] : i \in DOMAIN document}

----------------------------------------------------------------------------
(* The number resolver (determineMarkerNumber) *)

\* Line n decides the number for a level: it is an ordered item at that level,
\* or a list item at a lesser level.
Decides(n, level) ==
    /\ ParsedAt(TextEditor, n).isListItem
    /\ \/ ParsedAt(TextEditor, n).markerIsNumber /\ ParsedAt(TextEditor, n).level = level
       \/ ParsedAt(TextEditor, n).level < level

\* The lines above line fromLine that decide the number for a level.
DecidingAbove(fromLine, level) == {n \in 0 .. fromLine - 1 : Decides(n, level)}

\* The last of them: the first the upward scan meets.
NearestDeciding(fromLine, level) ==
    CHOOSE n \in DecidingAbove(fromLine, level) :
        \A m \in DecidingAbove(fromLine, level) : m <= n

\* C2: when a line above fromLine decides the number, the resolver returns what
\* the nearest such line says, whatever lies in between (lines that are not
\* list items, and items of deeper levels): the numeral plus one of an ordered
\* item at the level, and 1 for an item of a lesser level.
C2_ResolverScansUpward ==
    (call.fn = "determineMarkerNumber"
        /\ DecidingAbove(call.lineNumber, call.indentationLevel) # {})
        => call.result =
               [threw |-> FALSE,
                number |->
                    IF ParsedAt(TextEditor,
                                NearestDeciding(call.lineNumber,
                                                call.indentationLevel)).level
                           = call.indentationLevel
                    THEN ParsedAt(TextEditor,
                                  NearestDeciding(call.lineNumber,
                                                  call.indentationLevel)).markerNumber + 1
                    ELSE 1]

\* C2 happens: a line outdented to level 0 below two sub-list items continues
\* the numbering of "7. a" above them with 8.
C2_Witness ==
    /\ call.fn = "determineMarkerNumber"
    /\ tabSize = 2
    /\ document = << <<"7", ".", SP, "a">>, <<SP, SP, "*", SP, "a">>,
                     <<SP, SP, "*", SP, "a">>, <<SP, SP, "*", SP, "a">> >>
    /\ call.lineNumber = 3
    /\ call.indentationLevel = 0
    /\ call.result = [threw |-> FALSE, number |-> 8]

\* C3: the resolver returns an integer that is at least 1 for every document,
\* line and level; when the scan comes to the first line of the document
\* without a deciding line it returns 1 and does not fail.
C3_ResolverAlwaysReturns ==
    call.fn = "determineMarkerNumber"
        => /\ ~call.result.threw
           /\ call.result.number >= 1
           /\ DecidingAbove(call.lineNumber, call.indentationLevel) = {}
                  => call.result.number = 1

\* What the resolver does instead: with no deciding line above, it asks the
\* document for line -1 and the Error of lineAt ends it.
C3_Witness ==
    /\ call.fn = "determineMarkerNumber"
    /\ document = << <<SP, SP, "*", SP, "a">> >>
    /\ tabSize = 2
    /\ call.lineNumber = 0
    /\ call.indentationLevel = 0
    /\ call.result.threw

----------------------------------------------------------------------------
(* The marker a moved line gets (determineFullMarker and                   *)
(* setIndentationLevelAndDetermineMarker)                                  *)

\* The level the command that ran moves line n to.
TargetLevel(n) ==
    IF outcome.op = "onIndent" THEN ParsedAt(Before, n).level + 1
    ELSE ParsedAt(Before, n).level - 1

\* The greatest level the command asked the marker table for.
TableMaxLevel ==
    IF outcome.op = "onEnterKey" THEN enterScan(Before, 1, 0).maxLevel - 1
    ELSE IF outcome.op = "onIndent"
    THEN maxLevelOver(Before, SpannedInOrder(Before, 1), 1) + 1
    ELSE maxLevelOver(Before, SpannedInOrder(Before, 1), 1) - 1

\* The marker table of the command that ran.
TableBefore == getMarkerLevels(Before, TableMaxLevel)

\* The full marker for level T: the table's entry, or else the default marker
\* of the level, or else "-".
ChosenMarker(T) ==
    IF T \in DOMAIN TableBefore THEN TableBefore[T]
    ELSE IF config.defaultMarkers = <<>> THEN <<"-">>
    ELSE config.defaultMarkers[(T % Len(config.defaultMarkers)) + 1]

\* A full marker is ordered when it ends in a delimiter.
IsOrdered(fullMarker) == fullMarker[Len(fullMarker)] \in Delimiters

\* A full marker with its numeral replaced by number.
Renumbered(fullMarker, number) ==
    SubSeq(fullMarker, 1, SpanLen(fullMarker, 1, Whitespace))
        \o numberToString(number) \o <<fullMarker[Len(fullMarker)]>>

\* The head of line n moved to its target level with full marker fullMarker.
MovedHead(n, fullMarker) ==
    createIndentation(Before, TargetLevel(n))
        \o fullMarker \o ParsedAt(Before, n).markerTrailingSpaces

\* The head replacements the command submitted.
HeadEdits == {i \in DOMAIN outcome.edits : outcome.edits[i].kind = "replace"}

\* C4 as stated: every new head is the indentation of the target level, then
\* exactly the full marker chosen for that level (the table's entry, or the
\* default marker of the level, or "-"), then the line's trailing spaces.
C4_HeadUsesChosenMarkerExactly ==
    \A i \in HeadEdits :
        outcome.edits[i].text =
            MovedHead(outcome.edits[i].line, ChosenMarker(TargetLevel(outcome.edits[i].line)))

\* C4, amended: the marker chosen for the target level T is the table's entry
\* for T, or else defaultMarkers[T mod length], or else "-".  A chosen bullet
\* marker (with its spacing prefix and checkbox) is used exactly; of a chosen
\* ordered marker the spacing prefix and the delimiter are used, and the
\* numeral is the one the number resolver finds for the line at level T.  A
\* command that throws submits no head at all.
C4_HeadUsesChosenMarker ==
    /\ outcome.error # "" => outcome.edits = <<>>
    /\ \A i \in HeadEdits :
           outcome.edits[i].text =
               MovedHead(
                   outcome.edits[i].line,
                   IF IsOrdered(ChosenMarker(TargetLevel(outcome.edits[i].line)))
                   THEN Renumbered(
                            ChosenMarker(TargetLevel(outcome.edits[i].line)),
                            determineMarkerNumber(
                                Before, outcome.edits[i].line,
                                TargetLevel(outcome.edits[i].line)).number)
                   ELSE ChosenMarker(TargetLevel(outcome.edits[i].line)))

\* C4 happens: a line is moved to a level whose table entry is ordered, and
\* its new head carries another numeral than the entry.
C4_Witness ==
    \E i \in HeadEdits :
        /\ TargetLevel(outcome.edits[i].line) \in DOMAIN TableBefore
        /\ IsOrdered(TableBefore[TargetLevel(outcome.edits[i].line)])
        /\ outcome.edits[i].text #
               MovedHead(outcome.edits[i].line,
                         TableBefore[TargetLevel(outcome.edits[i].line)])

----------------------------------------------------------------------------
(* The marker table (getMarkerLevels) *)

ActiveLine == selections[1].active.line

\* The list lines of the document at level L.
ListLinesAt(L) ==
    {n \in 0 .. Len(document) - 1 :
        ParsedAt(TextEditor, n).isListItem /\ ParsedAt(TextEditor, n).level = L}

Distance(n) == IF n >= ActiveLine THEN n - ActiveLine ELSE ActiveLine - n

\* The list line at level L nearest to the active line, the earlier of two
\* equally near.
NearestAt(L) ==
    CHOOSE n \in ListLinesAt(L) :
        \A m \in ListLinesAt(L) :
            Distance(n) < Distance(m) \/ (Distance(n) = Distance(m) /\ n <= m)

\* The place of line n in the order: the active line, the lines above it from
\* the nearest to line 0, then the lines below it from the nearest to the last.
PlaceInOrder(n) == IF n <= ActiveLine THEN ActiveLine - n ELSE n

\* The list line at level L that comes first in that order.
FirstInOrderAt(L) ==
    CHOOSE n \in ListLinesAt(L) : \A m \in ListLinesAt(L) : PlaceInOrder(n) <= PlaceInOrder(m)

\* C5 as stated: for every level up to maxLevel that has a list line, the
\* table's entry is the full marker of the list line at that level nearest to
\* the active line by line distance, the earlier line winning a tie.
C5_EntryOfNearestLine ==
    call.fn = "getMarkerLevels"
        => \A L \in 0 .. call.maxLevel :
               ListLinesAt(L) # {}
                   => /\ L \in DOMAIN call.result
                      /\ call.result[L] = getFullMarker(ParsedAt(TextEditor, NearestAt(L)))

\* C5, amended: for every level up to maxLevel that has a list line, the
\* table's entry is the full marker of the list line at that level that comes
\* first in the order: the active line, then every line above it (nearest
\* first), then the lines below it (nearest first).  A line above the active
\* line wins over any line below it, however near.
C5_EntryOfFirstLineInOrder ==
    call.fn = "getMarkerLevels"
        => \A L \in 0 .. call.maxLevel :
               ListLinesAt(L) # {}
                   => /\ L \in DOMAIN call.result
                      /\ call.result[L] = getFullMarker(ParsedAt(TextEditor, FirstInOrderAt(L)))

\* C5 happens: the entry of a level comes from a line above the active line
\* although a line below it with another marker is nearer.
C5_Witness ==
    /\ call.fn = "getMarkerLevels"
    /\ \E L \in 0 .. call.maxLevel :
           /\ ListLinesAt(L) # {}
           /\ FirstInOrderAt(L) < ActiveLine
           /\ NearestAt(L) > ActiveLine
           /\ call.result[L] = getFullMarker(ParsedAt(TextEditor, FirstInOrderAt(L)))
           /\ call.result[L] # getFullMarker(ParsedAt(TextEditor, NearestAt(L)))

----------------------------------------------------------------------------
(* The parts of a parsed line (ParsedLine) *)

\* C6 as stated: the level of a list line is the length of its leading
\* whitespace with every tab replaced by tabSize spaces, divided by tabSize
\* and rounded down, and the marker spacing is what that replaced whitespace
\* has beyond level * tabSize columns, whether the line is indented with
\* spaces, tabs or both.
C6_LevelFromReplacedTabs ==
    (call.fn = "ParsedLine" /\ call.result.isListItem)
        => /\ call.result.level =
                  Len(replaceTabs(call.result.initialSpacing, tabSize)) \div tabSize
           /\ call.result.markerInitialSpaces =
                  substring(replaceTabs(call.result.initialSpacing, tabSize),
                            (Len(replaceTabs(call.result.initialSpacing, tabSize))
                                 \div tabSize) * tabSize)

\* What the parser does instead: a line indented with one tab is at level 0,
\* and all the spaces the tab stands for are its marker spacing.
C6_Witness ==
    /\ call.fn = "ParsedLine"
    /\ document = << <<TAB, "-", SP, "a">> >>
    /\ tabSize = 4
    /\ call.result.isListItem
    /\ call.result.level = 0
    /\ call.result.markerInitialSpaces = <<SP, SP, SP, SP>>

\* C7: for every line that parses as a list item, the raw indentation, the
\* marker, the trailing spaces and the content, in this order, make up the
\* text of the line: getHead() followed by the remainder is the line.
C7_RoundTrip ==
    (call.fn = "ParsedLine" /\ call.result.isListItem)
        => /\ getHead(call.result) \o call.result.remainder = document[1]
           /\ call.result.initialSpacing \o call.result.marker
                  \o call.result.markerTrailingSpaces \o call.result.remainder
                  = document[1]

\* C7 happens: a line indented with a tab and a space, with a checkbox marker,
\* two trailing spaces and no content, is parsed.
C7_Witness ==
    /\ call.fn = "ParsedLine"
    /\ document = << <<TAB, SP, "-", SP, "[", SP, "]", SP, SP>> >>
    /\ call.result.isListItem
    /\ call.result.initialSpacing = <<TAB, SP>>
    /\ call.result.marker = <<"-", SP, "[", SP, "]">>
    /\ call.result.markerTrailingSpaces = <<SP, SP>>
    /\ call.result.remainder = <<>>

----------------------------------------------------------------------------
(* When the commands leave the work to the editor *)

\* Selection s has a line that is not a list item among the line before its
\* start and the lines it spans.
InspectsNonItem(s) ==
    \E i \in Max(0, s.start.line - 1) .. s.end.line : ~ParsedAt(Before, i).isListItem

\* The default command of the command that ran.
DefaultCommand ==
    IF outcome.op = "onIndent" THEN "editor.action.indentLines"
    ELSE "editor.action.outdentLines"

\* C8: when the line before a selection's start, or a line a selection spans,
\* is not a list item, Indent (Outdent) submits no edit and executes the
\* default indent (outdent) command exactly once.
C8_DefersToDefaultCommand ==
    (outcome.op \in {"onIndent", "onOutdent"}
        /\ \E k \in DOMAIN selections : InspectsNonItem(selections[k]))
        => /\ outcome.edits = <<>>
           /\ outcome.commands = <<DefaultCommand>>
           /\ outcome.error = ""
           /\ document = outcome.before

\* C8 happens: Outdent over one selection that spans a list line and then a
\* line that is not a list item.
C8_Witness ==
    /\ outcome.op = "onOutdent"
    /\ Len(selections) = 1
    /\ selections[1].start.line < selections[1].end.line
    /\ ParsedAt(Before, selections[1].start.line).isListItem
    /\ ~ParsedAt(Before, selections[1].end.line).isListItem
    /\ outcome.commands = <<"editor.action.outdentLines">>
    /\ outcome.edits = <<>>

\* The lines of selection s whose head the command that ran rewrites: all the
\* lines it spans for Indent, those at level 1 or more for Outdent.
LinesToEdit(s) ==
    {i \in s.start.line .. s.end.line :
        outcome.op = "onIndent" \/ ParsedAt(Before, i).level >= 1}

\* The edits submitted for line n.
EditsOn(n) == {i \in DOMAIN outcome.edits : outcome.edits[i].line = n}

\* Line n got one edit, of this kind.
OneEditOn(n, kind) ==
    \E i \in DOMAIN outcome.edits : EditsOn(n) = {i} /\ outcome.edits[i].kind = kind

\* C9 as stated: Indent and Outdent decide per selection: a selection that
\* meets a line that is not a list item gets no head edit, and every other
\* selection has the heads of its lines rewritten all the same.
C9_FallbackPerSelection ==
    (outcome.op \in {"onIndent", "onOutdent"} /\ outcome.error = "")
        => \A k \in DOMAIN selections :
               IF InspectsNonItem(selections[k])
               THEN \A i \in selections[k].start.line .. selections[k].end.line :
                        EditsOn(i) = {}
               ELSE \A i \in LinesToEdit(selections[k]) : OneEditOn(i, "replace")

\* C9, amended: Indent and Outdent decide once for all the selections of an
\* invocation.  When any selection meets a line that is not a list item, no
\* selection gets an edit and the default command is executed once, for them
\* all.  Otherwise no default command is executed, and either every line to
\* edit of every selection gets one head replacement and nothing else is
\* submitted, or the command throws and nothing is submitted.
C9_FallbackForAllSelections ==
    outcome.op \in {"onIndent", "onOutdent"}
        => IF \E k \in DOMAIN selections : InspectsNonItem(selections[k])
           THEN outcome.edits = <<>> /\ outcome.commands = <<DefaultCommand>>
           ELSE /\ outcome.commands = <<>>
                /\ outcome.error # "" => outcome.edits = <<>>
                /\ outcome.error = "" =>
                       /\ \A k \in DOMAIN selections :
                              \A i \in LinesToEdit(selections[k]) : OneEditOn(i, "replace")
                       /\ \A i \in DOMAIN outcome.edits :
                              \E k \in DOMAIN selections :
                                  outcome.edits[i].line \in LinesToEdit(selections[k])

\* C9 happens: of two selections of an Indent one meets a line that is not a
\* list item and the other has only list lines, and neither gets an edit.
C9_Witness ==
    /\ outcome.op = "onIndent"
    /\ Len(selections) = 2
    /\ \E k \in DOMAIN selections : InspectsNonItem(selections[k])
    /\ \E k \in DOMAIN selections :
           ~InspectsNonItem(selections[k]) /\ LinesToEdit(selections[k]) # {}
    /\ outcome.edits = <<>>
    /\ outcome.commands = <<"editor.action.indentLines">>

\* The cursor of selection s is on a list line and only whitespace follows it.
CursorOnItemEnd(s) ==
    /\ ParsedAt(Before, s.active.line).isListItem
    /\ OnlyWhitespaceAfter(outcome.before[s.active.line + 1], s.active.character)

\* The kind of edit the list logic of Continue makes for the cursor of s.
ListEditKind(s) ==
    IF ParsedAt(Before, s.active.line).remainder # <<>> THEN "insert"
    ELSE IF config.blankListItemBehaviour = "Remove List Item" THEN "delete"
    ELSE IF ParsedAt(Before, s.active.line).level >= 1 THEN "replace"
    ELSE "none"

\* C10: Continue decides once over all cursors.  When some cursor is not on a
\* list line, or has more than whitespace after it, no edit is made for any
\* cursor and the "type" command of the host is executed once; otherwise no
\* host command is executed and the list logic is applied to every cursor:
\* each cursor's line gets the one edit of its case (none for a blank item at
\* level 0 that is to be outdented), unless the command throws.
C10_ContinueDecidesOnce ==
    outcome.op = "onEnterKey"
        => IF \E k \in DOMAIN selections : ~CursorOnItemEnd(selections[k])
           THEN /\ outcome.edits = <<>>
                /\ outcome.commands = <<"type">>
                /\ outcome.error = ""
                /\ document = outcome.before
           ELSE /\ outcome.commands = <<>>
                /\ outcome.error # "" => outcome.edits = <<>>
                /\ outcome.error = "" =>
                       \A k \in DOMAIN selections :
                           IF ListEditKind(selections[k]) = "none"
                           THEN EditsOn(selections[k].active.line) = {}
                           ELSE OneEditOn(selections[k].active.line,
                                          ListEditKind(selections[k]))

\* C10 happens: of two cursors one is at the end of a list line and the other
\* on a line that is not a list item, and the newline is left to the host.
C10_Witness ==
    /\ outcome.op = "onEnterKey"
    /\ Len(selections) = 2
    /\ \E k \in DOMAIN selections : CursorOnItemEnd(selections[k])
    /\ \E k \in DOMAIN selections : ~ParsedAt(Before, selections[k].active.line).isListItem
    /\ outcome.commands = <<"type">>
    /\ outcome.edits = <<>>

----------------------------------------------------------------------------
(* Continue (onEnterKey) on a blank list item *)

\* Every cursor is at the end of a list line, so the list logic runs.
ListLogicRuns ==
    /\ outcome.op = "onEnterKey"
    /\ \A k \in DOMAIN selections : CursorOnItemEnd(selections[k])

\* The cursor of selection s is on a blank list item.
OnBlankItem(s) == ParsedAt(Before, s.active.line).remainder = <<>>

\* The head of line n for its target level: the indentation of that level, the
\* marker chosen for it (an ordered one with the number the resolver finds) and
\* the trailing spaces of the line.
HeadForTargetLevel(n) ==
    MovedHead(n,
              IF IsOrdered(ChosenMarker(TargetLevel(n)))
              THEN Renumbered(ChosenMarker(TargetLevel(n)),
                              determineMarkerNumber(Before, n, TargetLevel(n)).number)
              ELSE ChosenMarker(TargetLevel(n)))

\* C11 as stated: Continue on a blank list item at level L >= 1 with
\* blankListItemBehaviour = Outdent inserts no line and replaces the head of
\* the line by the head for level L - 1: the indentation of that level, the
\* marker of that level from the marker table or the defaults, and the
\* trailing spaces of the line.
C11_BlankItemIsOutdented ==
    (ListLogicRuns /\ config.blankListItemBehaviour = "Outdent")
        => \A k \in DOMAIN selections :
               (OnBlankItem(selections[k])
                    /\ ParsedAt(Before, selections[k].active.line).level >= 1)
                   => /\ \E i \in DOMAIN outcome.edits :
                             /\ EditsOn(selections[k].active.line) = {i}
                             /\ outcome.edits[i] =
                                    [kind |-> "replace",
                                     line |-> selections[k].active.line,
                                     start |-> 0,
                                     end |-> Len(getHead(ParsedAt(Before,
                                                 selections[k].active.line))),
                                     text |-> HeadForTargetLevel(selections[k].active.line)]
                      /\ Len(selections) = 1 => Len(document) = Len(outcome.before)

\* What Continue does instead in one case: on the blank item "  - " in the
\* first line, above "1. a", the command throws and the line stays as it was.
C11_Witness ==
    /\ ListLogicRuns
    /\ config.blankListItemBehaviour = "Outdent"
    /\ tabSize = 2
    /\ outcome.before = << <<SP, SP, "-", SP>>, <<"1", ".", SP, "a">> >>
    /\ selections = <<Cursor(0, 4)>>
    /\ outcome.error = "Illegal value for line"
    /\ outcome.edits = <<>>
    /\ document = outcome.before

WithoutLine(doc, n) == SubSeq(doc, 1, n) \o SubSeq(doc, n + 2, Len(doc))

\* C13 as stated: Continue on a blank list item with blankListItemBehaviour =
\* Remove List Item removes the line from the document, which has one line
\* fewer afterwards.
C13_BlankItemLineIsRemoved ==
    (ListLogicRuns /\ config.blankListItemBehaviour = "Remove List Item"
        /\ Len(selections) = 1 /\ OnBlankItem(selections[1]))
        => /\ Len(document) = Len(outcome.before) - 1
           /\ document = WithoutLine(outcome.before, selections[1].active.line)

\* C13, amended: Continue on a blank list item with blankListItemBehaviour =
\* Remove List Item, at any level, deletes the text of the line (indentation,
\* marker and trailing spaces) and not its line break: one deletion of the
\* range of the line is submitted for it, and with one cursor the document
\* afterwards has as many lines as before, the line of the item being empty.
C13_BlankItemTextIsDeleted ==
    (ListLogicRuns /\ config.blankListItemBehaviour = "Remove List Item")
        => /\ outcome.error = ""
           /\ \A k \in DOMAIN selections :
                  OnBlankItem(selections[k])
                      => \E i \in DOMAIN outcome.edits :
                             /\ EditsOn(selections[k].active.line) = {i}
                             /\ outcome.edits[i] =
                                    [kind |-> "delete",
                                     line |-> selections[k].active.line,
                                     start |-> 0,
                                     end |-> Len(outcome.before[selections[k].active.line + 1]),
                                     text |-> <<>>]
           /\ (Len(selections) = 1 /\ OnBlankItem(selections[1]))
                  => /\ Len(document) = Len(outcome.before)
                     /\ document =
                            [outcome.before EXCEPT ![selections[1].active.line + 1] = <<>>]

\* C13 happens: the blank item "  - " between two lines is emptied, and the
\* document keeps its three lines.
C13_Witness ==
    /\ ListLogicRuns
    /\ config.blankListItemBehaviour = "Remove List Item"
    /\ selections = <<Cursor(1, 4)>>
    /\ outcome.before = << <<"-", SP, "a">>, <<SP, SP, "-", SP>>, <<"-", SP, "a">> >>
    /\ document = << <<"-", SP, "a">>, <<>>, <<"-", SP, "a">> >>

----------------------------------------------------------------------------
(* What Indent and Outdent do to the lines they edit *)

\* The command that ran is Indent or Outdent.
MovesLines == outcome.op \in {"onIndent", "onOutdent"}

\* The checkbox of a marker: the four characters after a bullet, if any.
Checkbox(marker) == SubSeq(marker, 2, Len(marker))

HasCheckbox(marker) == Len(marker) = 5 /\ marker[3] = "["

\* C14 as stated: when Indent or Outdent rewrites the head of a line whose
\* marker carries a checkbox, the marker of the line afterwards carries the
\* same checkbox.
C14_CheckboxIsKept ==
    MovesLines
        => \A i \in HeadEdits :
               HasCheckbox(ParsedAt(Before, outcome.edits[i].line).marker)
                   => /\ ParsedAt(TextEditor, outcome.edits[i].line).isListItem
                      /\ HasCheckbox(ParsedAt(TextEditor, outcome.edits[i].line).marker)
                      /\ Checkbox(ParsedAt(TextEditor, outcome.edits[i].line).marker)
                             = Checkbox(ParsedAt(Before, outcome.edits[i].line).marker)

\* What Indent does instead: with tab size 4, "  * [x] a " at level 0 is given
\* the default marker of level 1, and its checkbox is gone.
C14_Witness ==
    /\ outcome.op = "onIndent"
    /\ tabSize = 4
    /\ insertSpaces
    /\ config.defaultMarkers = << <<"-">> >>
    /\ outcome.before = << <<SP, SP, "*", SP, "[", "x", "]", SP, "a", SP>> >>
    /\ document = << <<SP, SP, SP, SP, "-", SP, "a", SP>> >>

----------------------------------------------------------------------------
(* Continue, again and again *)

\* The delimiter of an ordered marker: its last character.
Delimiter(marker) == marker[Len(marker)]

\* The item the presses of Enter of the session started from.
StartItem == ParsedAt(TextEditor, call.start)

\* C15: starting from an ordered item with numeral n, the presses of Enter that
\* each continued the item inserted by the press before it, after content was
\* typed into it, inserted items with the numerals n+1, n+2, ..., all with the
\* delimiter and the level of the first.
C15_NumbersIncrease ==
    (call.fn = "session" /\ StartItem.isListItem /\ StartItem.markerIsNumber)
        => \A i \in 1 .. call.continued :
               /\ ParsedAt(TextEditor, call.start + i).isListItem
               /\ ParsedAt(TextEditor, call.start + i).markerIsNumber
               /\ ParsedAt(TextEditor, call.start + i).markerNumber
                      = StartItem.markerNumber + i
               /\ Delimiter(ParsedAt(TextEditor, call.start + i).marker)
                      = Delimiter(StartItem.marker)
               /\ ParsedAt(TextEditor, call.start + i).level = StartItem.level

\* Two presses of Enter after "  19) a", content typed in between.
C15_Witness ==
    /\ call = Session(0, 2)
    /\ tabSize = 2
    /\ document = << <<SP, SP, "1", "9", ")", SP, "a">>,
                     <<SP, SP, "2", "0", ")", SP, "a">>,
                     <<SP, SP, "2", "1", ")", SP>> >>

----------------------------------------------------------------------------
(* The frame of Indent and Outdent *)

\* The lines the selections span.
Spanned == UNION {s.start.line .. s.end.line : s \in {selections[k] : k \in DOMAIN selections}}

\* The spaces a head ends with.
RECURSIVE SpacesAtEnd(_)
SpacesAtEnd(head) ==
    IF Len(head) = 0 THEN <<>>
    ELSE IF head[Len(head)] # SP THEN <<>>
    ELSE SpacesAtEnd(SubSeq(head, 1, Len(head) - 1)) \o <<SP>>

\* Edit i replaces the head of its line, and no more, by a head that ends with
\* the same spaces after its marker; the line afterwards is the new head
\* followed by the content it had.
RewritesHeadOnly(i) ==
    \E pl \in {ParsedAt(Before, outcome.edits[i].line)} :
        /\ pl.isListItem
        /\ outcome.edits[i].kind = "replace"
        /\ outcome.edits[i].start = 0
        /\ outcome.edits[i].end = Len(getHead(pl))
        /\ SpacesAtEnd(outcome.edits[i].text) = pl.markerTrailingSpaces
        /\ document[outcome.edits[i].line + 1] = outcome.edits[i].text \o pl.remainder

\* C16: Indent and Outdent change only line heads: a line they edit keeps its
\* content and the number of spaces after its marker, a line outside the spans
\* of the selections is unchanged, and so is the number of lines.
C16_OnlyHeadsChange ==
    MovesLines
        => /\ Len(document) = Len(outcome.before)
           /\ \A n \in 0 .. Len(document) - 1 :
                  IF EditsOn(n) = {}
                  THEN document[n + 1] = outcome.before[n + 1]
                  ELSE /\ n \in Spanned
                       /\ \E i \in DOMAIN outcome.edits :
                              EditsOn(n) = {i} /\ RewritesHeadOnly(i)

\* Indent of the second line of three: the tab and the marker "+" make way for
\* two spaces and the marker chosen for level 1, the two spaces after the
\* marker and the content stay, and so do the lines around it.
C16_Witness ==
    /\ outcome.op = "onIndent"
    /\ tabSize = 2
    /\ insertSpaces
    /\ selections = <<Cursor(1, 5)>>
    /\ outcome.before = << <<"-", SP, "a">>, <<TAB, "+", SP, SP, "a">>, <<"1", ".", SP, "a">> >>
    /\ document[1] = <<"-", SP, "a">>
    /\ document[3] = <<"1", ".", SP, "a">>
    /\ document[2] # outcome.before[2]
    /\ SubSeq(document[2], Len(document[2]) - 2, Len(document[2])) = <<SP, SP, "a">>

----------------------------------------------------------------------------
(* Outdent at level 0 *)

\* Outdent ran its list logic: no line it inspected made it defer to the
\* default command.
OutdentListLogicRuns == outcome.op = "onOutdent" /\ outcome.commands = <<>>

\* The level of line n as the command found it.
LevelBefore(n) == ParsedAt(Before, n).level

\* The half of C17 about level 0: a spanned list line at level 0 gets no edit
\* and is the same afterwards.
LevelZeroLinesKept ==
    \A n \in Spanned :
        LevelBefore(n) = 0 => EditsOn(n) = {} /\ document[n + 1] = outcome.before[n + 1]

\* C17 as stated: in Outdent, every spanned list line at level 0 is left
\* unchanged (no edit is submitted for it), while the spanned lines at level 1
\* or more of the same invocation have their heads rewritten.
C17_LevelZeroIsKeptOthersOutdented ==
    OutdentListLogicRuns
        => /\ LevelZeroLinesKept
           /\ \A n \in Spanned : LevelBefore(n) >= 1 => OneEditOn(n, "replace")

\* Outdent of both lines of ["  - ", "1. a"]: the first is at level 1 and
\* its new marker is ordered, the scan for its number runs off the top of the
\* document and the command throws: neither line is edited.
C17_Witness ==
    /\ outcome.op = "onOutdent"
    /\ tabSize = 2
    /\ outcome.before = << <<SP, SP, "-", SP>>, <<"1", ".", SP, "a">> >>
    /\ selections = <<Range(outcome.before, 0, 1)>>
    /\ outcome.error = "Illegal value for line"
    /\ outcome.edits = <<>>
    /\ document = outcome.before

----------------------------------------------------------------------------
(* The loop of getMarkerLevels *)

\* The order of visit the documentation of getMarkerLevels gives: the active
\* line, the lines above it going up, then the lines below it going down.
ScanOrder ==
    [k \in 1 .. ActiveLine + 1 |-> ActiveLine + 1 - k]
        \o [k \in 1 .. Len(document) - 1 - ActiveLine |-> ActiveLine + k]

\* The k-th line visited is a list line at level L.
VisitedAt(k, L) ==
    /\ ParsedAt(TextEditor, call.visited[k]).isListItem
    /\ ParsedAt(TextEditor, call.visited[k]).level = L

\* The loop returned what getMarkerLevels returns.
LoopReturnsTable ==
    (call.fn = "getMarkerLevelsLoop" /\ call.returned)
        => call.markerLevels = getMarkerLevels(TextEditor, call.maxLevel)

\* C18: getMarkerLevels visits the lines in the order active line, active-1
\* down to line 0, active+1 up to the last line, each at most once; the entry
\* of a level L <= maxLevel is the full marker of the first list line at level
\* L in that order and is never overwritten; no level above maxLevel is ever
\* recorded (none at all for maxLevel < 0); and the loop stops as soon as all
\* the levels 0..maxLevel are recorded: the recording that completes the table
\* is the break.  (With maxLevel < 0 nothing is ever recorded, so there is no
\* such recording, and the loop runs over every line.)
C18_LoopOfGetMarkerLevels ==
    call.fn = "getMarkerLevelsLoop"
        => /\ call.visited = SubSeq(ScanOrder, 1, Len(call.visited))
           /\ DOMAIN call.markerLevels \subseteq 0 .. call.maxLevel
           /\ \A L \in 0 .. call.maxLevel :
                  IF \E k \in DOMAIN call.visited : VisitedAt(k, L)
                  THEN /\ L \in DOMAIN call.markerLevels
                       /\ \E k \in DOMAIN call.visited :
                              /\ VisitedAt(k, L)
                              /\ \A j \in 1 .. k - 1 : ~VisitedAt(j, L)
                              /\ call.markerLevels[L]
                                     = getFullMarker(ParsedAt(TextEditor, call.visited[k]))
                  ELSE L \notin DOMAIN call.markerLevels
           /\ (call.maxLevel >= 0 /\ DOMAIN call.markerLevels = 0 .. call.maxLevel)
                  => call.broke
           /\ call.returned => call.broke \/ Len(call.visited) = Len(document)

\* From the third of four lines with maxLevel 1: the loop visits lines 2, 1
\* and 0, passes over the second line of level 1 it meets, and stops before
\* line 3 with both levels recorded.
C18_Witness ==
    /\ call.fn = "getMarkerLevelsLoop"
    /\ call.returned /\ call.broke
    /\ call.maxLevel = 1
    /\ tabSize = 2
    /\ document = << <<"-", SP, "a">>, <<SP, SP, "1", "9", ")", SP, "a">>,
                     <<SP, SP, "*", SP, "a">>, <<"7", ".", SP, "a">> >>
    /\ call.visited = <<2, 1, 0>>
    /\ call.markerLevels = (0 :> <<"-">>) @@ (1 :> <<"*">>)

----------------------------------------------------------------------------
(* The level of a moved line *)

\* C19 as stated: a list line that Indent or Outdent gave a new head parses
\* afterwards as a list item at the level it was moved to (one more for Indent,
\* one less for Outdent), whether the editor indents with spaces or with tabs.
C19_MovedLineParsesAtTargetLevel ==
    MovesLines
        => \A i \in HeadEdits :
               /\ ParsedAt(TextEditor, outcome.edits[i].line).isListItem
               /\ ParsedAt(TextEditor, outcome.edits[i].line).level
                      = TargetLevel(outcome.edits[i].line)

\* With tabs for indentation and tab size 2, Indent of "- a" gives one tab and
\* "- a", which the parser puts at level 0 again.
C19_Witness ==
    /\ outcome.op = "onIndent"
    /\ ~insertSpaces
    /\ tabSize = 2
    /\ outcome.before = << <<"-", SP, "a">> >>
    /\ document = << <<TAB, "-", SP, "a">> >>
    /\ ParsedAt(TextEditor, 0).level = 0

----------------------------------------------------------------------------
(* Several lines moved in one invocation *)

\* Line n of the document the command found decides the number for a level.
DecidesBefore(n, level) ==
    /\ ParsedAt(Before, n).isListItem
    /\ \/ ParsedAt(Before, n).markerIsNumber /\ ParsedAt(Before, n).level = level
       \/ ParsedAt(Before, n).level < level

\* The nearest such line above line n.
NearestDecidingBefore(n, level) ==
    CHOOSE m \in {d \in 0 .. n - 1 : DecidesBefore(d, level)} :
        \A d \in m + 1 .. n - 1 : ~DecidesBefore(d, level)

\* The number the upward scan over the document the command found gives line n
\* at a level: one more than the numeral of the nearest ordered item of the
\* level above it, or 1 when an item of a lesser level comes first.
NumberFromAbove(n, level) ==
    IF ParsedAt(Before, NearestDecidingBefore(n, level)).level = level
    THEN ParsedAt(Before, NearestDecidingBefore(n, level)).markerNumber + 1
    ELSE 1

\* C20: within one Indent or Outdent every new head is computed from the
\* document as the command found it: a line that is given an ordered marker
\* gets the number of the upward scan over the lines above it as they were,
\* whatever heads the other lines of the invocation are given; and the edits
\* are applied together, to the document as the command found it.
C20_HeadsFromDocumentBefore ==
    MovesLines
        => /\ document = applyEdits(outcome.before, outcome.edits)
           /\ \A i \in HeadEdits :
                  ParsedAt(TextEditor, outcome.edits[i].line).markerIsNumber
                      => ParsedAt(TextEditor, outcome.edits[i].line).markerNumber
                             = NumberFromAbove(outcome.edits[i].line,
                                               TargetLevel(outcome.edits[i].line))

\* Outdent of the two sub-items under "1. a": both are given the number 2,
\* the second not 3.
C20_Witness ==
    /\ outcome.op = "onOutdent"
    /\ tabSize = 2
    /\ outcome.before = << <<"1", ".", SP, "a">>, <<SP, SP, "-", SP>>, <<SP, SP, "-", SP>> >>
    /\ Len(outcome.edits) = 2
    /\ document = << <<"1", ".", SP, "a">>, <<"2", ".", SP>>, <<"2", ".", SP>> >>

----------------------------------------------------------------------------
(* Indent and Outdent with selections that share a line.  The selections   *)
(* of an editor never overlap, but two of them can lie on one line: two    *)
(* cursors at different columns, or a selection that ends at the start of  *)
(* the line a cursor is on.                                                *)

\* Two cursors on one line, at its end and one character before it.
CursorPairs(doc) ==
    {<<Cursor(l, Len(doc[l + 1])), Cursor(l, Len(doc[l + 1]) - 1)>> :
        l \in {m \in 0 .. Len(doc) - 1 : Len(doc[m + 1]) > 0}}

\* A selection from the start of line l1 to the start of line l2.
UpToLine(l1, l2) ==
    [start |-> Position(l1, 0), end |-> Position(l2, 0), active |-> Position(l2, 0)]

\* A selection that ends at the start of a line, and a cursor at the end of
\* that line.
SelectionAndCursor(doc) ==
    {<<UpToLine(l[1], l[2]), Cursor(l[2], Len(doc[l[2] + 1]))>> :
        l \in {m \in (0 .. Len(doc) - 1) \X (0 .. Len(doc) - 1) :
                  m[1] < m[2] /\ Len(doc[m[2] + 1]) > 0}}

\* Two selections that share a line, or two on different lines.
SharedSelectionSets(doc) ==
    CursorPairs(doc) \cup SelectionAndCursor(doc)
        \cup {<<p[1], p[2]>> :
                 p \in {q \in Simple(doc) \X Simple(doc) : Disjoint(q[1], q[2])}}

InitShared ==
    /\ document \in Documents
    /\ \E o \in Options : tabSize = o.tabSize /\ insertSpaces = o.insertSpaces
    /\ config \in {c \in Configs : c.blankListItemBehaviour = "Outdent"}
    /\ selections \in SharedSelectionSets(document)
    /\ outcome = NoOutcome
    /\ call = NoCall

NextShared == OnOutdent \/ OnIndent

SpecShared == InitShared /\ [][NextShared]_vars

\* Two of the selections have a line in common.
SelectionsShareLine ==
    \E j, k \in DOMAIN selections :
        /\ j < k
        /\ ~Disjoint(selections[j], selections[k])

\* C21 as stated: for selections that do not overlap, two on one line
\* included, one Indent or Outdent submits at most one head replacement per
\* line, so that the ranges of its edits are pairwise disjoint.
C21_OneHeadEditPerLine ==
    MovesLines
        => /\ \A n \in 0 .. Len(document) - 1 : Cardinality(EditsOn(n)) <= 1
           /\ ~Overlapping(outcome.edits)

\* Indent with two cursors on "- a": the head of the line is replaced twice,
\* over the same range, and the host applies neither edit.
C21_Witness ==
    /\ outcome.op = "onIndent"
    /\ tabSize = 2
    /\ insertSpaces
    /\ outcome.before = << <<"-", SP, "a">> >>
    /\ selections = <<Cursor(0, 3), Cursor(0, 2)>>
    /\ Len(outcome.edits) = 2
    /\ outcome.edits[1] = outcome.edits[2]
    /\ outcome.edits[1].kind = "replace"
    /\ outcome.error = ""
    /\ ~outcome.applied
    /\ document = outcome.before

====
